---- MODULE Spec2Model ----
(***************************************************************************)
(* A model of the todo-backend HTTP service (src/src/main.rs): six request *)
(* handlers over one table `todos`.  Every handler issues one SQL          *)
(* statement, except PATCH, which issues a SELECT and later an UPDATE with *)
(* an await point (and no transaction) between the two.                    *)
(***************************************************************************)
EXTENDS Integers, Sequences, FiniteSets, TLC

\* ---------------------------------------------------------------- bounds
\* Number of rows the sequence behind todos.id may hand out.
MaxId == 2
\* Number of PATCH requests that may sit between their SELECT and UPDATE.
MaxInFlight == 2

\* ------------------------------------------------------------ Option<T>
None == <<>>
Some(v) == <<v>>
unwrap_or(o, d) == IF o = None THEN d ELSE o[1]

\* ------------------------------------------------------------ data types
PathIds == 1..MaxId
Tasks == 1..MaxInFlight

\* struct Todo
Todo(id, title, completed, order) ==
    [id |-> id, title |-> title, completed |-> completed, order |-> order]

\* request bodies accepted by POST /todos
NewTodo == [title : {"a", "b"}, order : {None, Some(1)}]

\* request bodies accepted by PATCH /todos/{id}
UpdateTodo ==
    { [title |-> None,      completed |-> Some(TRUE),  order |-> None],
      [title |-> Some("b"), completed |-> None,        order |-> Some(1)],
      [title |-> Some("a"), completed |-> Some(FALSE), order |-> Some(0)] }

\* sqlx::Error values a statement can fail with for reasons of its own
\* (pool acquisition, connection, database); "none" is a statement that ran.
Faults == {"none", "PoolTimedOut", "Database"}

\* ------------------------------------------------------------ RoutingService
scheme == "http"
host == "127.0.0.1"
port == 8080

\* todo_url leaving the port out of the authority
todo_url_NoPort(id) ==
    scheme \o "://" \o host \o "/todos/" \o ToString(id)

todo_url(id) ==
    scheme \o "://" \o host \o ":" \o ToString(port) \o "/todos/" \o ToString(id)

\* struct TodoPresenter, serialized with the todo flattened into it
TodoPresenter(todo, url) ==
    [id |-> todo.id, title |-> todo.title, completed |-> todo.completed,
     order |-> todo.order, url |-> url]

\* ------------------------------------------------------------ errors
\* impl From<sqlx::Error> for Error
ErrorFrom(error) ==
    IF error = "RowNotFound" THEN "NotFound" ELSE "InternalError"

\* ResponseError::status_code
status_code(err) ==
    CASE err = "InternalError" -> 500
      [] err = "BadClientData" -> 400
      [] err = "Timeout"       -> 504
      [] err = "NotFound"      -> 404

\* #[display(fmt = ...)] of enum Error
to_string(err) ==
    CASE err = "InternalError" -> "internal error"
      [] err = "BadClientData" -> "bad request"
      [] err = "Timeout"       -> "timeout"
      [] err = "NotFound"      -> "not found"

VARIABLES
    todos,          \* the table: a set of Todo rows
    todos_id_seq,   \* last value handed out by the sequence behind todos.id
    patching,       \* per task: the PATCH request suspended before its UPDATE
    last,           \* the last statement executed and the response it produced
    issued,         \* history: ids returned by successful creates
    purged,         \* history: a delete-all succeeded and no create since
    untouched       \* history: create responses of rows not patched or deleted since

vars == <<todos, todos_id_seq, patching, last, issued, purged, untouched>>

\* ------------------------------------------------------------ responses
Exchange(op, id, req, error, status, json, text, before) ==
    [op |-> op, id |-> id, req |-> req, error |-> error, status |-> status,
     json |-> json, text |-> text, before |-> before]

\* HttpResponse::Ok().json(..)
OkJson(op, id, req, json, before) ==
    Exchange(op, id, req, "none", 200, json, "", before)

\* ResponseError::error_response for the Error converted from a sqlx::Error
error_response(op, id, req, error) ==
    Exchange(op, id, req, error, status_code(ErrorFrom(error)), <<>>,
             to_string(ErrorFrom(error)), None)

\* HttpResponse::NoContent().finish()
NoContent(op, id) == Exchange(op, id, None, "none", 204, <<>>, "", None)

\* a handler suspended at an await: nothing sent yet
Pending(op, id, req) == Exchange(op, id, req, "none", 0, <<>>, "", None)

\* ------------------------------------------------------------ statements
\* SELECT * FROM todos WHERE id = $1
SelectById(id) == {r \in todos : r.id = id}

\* fetch_one on a result set
FetchOneError(rows) == IF rows = {} THEN "RowNotFound" ELSE "none"
FetchOneRow(rows) == CHOOSE r \in rows : TRUE

RECURSIVE OrderById_Desc(_)
\* the list query with ORDER BY id DESC
OrderById_Desc(rows) ==
    IF rows = {} THEN <<>>
    ELSE LET first == CHOOSE r \in rows : \A s \in rows : r.id >= s.id
         IN  <<first>> \o OrderById_Desc(rows \ {first})

RECURSIVE OrderById(_)
\* SELECT * FROM todos ORDER BY id, fetch_all
OrderById(rows) ==
    IF rows = {} THEN <<>>
    ELSE LET first == CHOOSE r \in rows : \A s \in rows : r.id <= s.id
         IN  <<first>> \o OrderById(rows \ {first})

\* column default of todos.completed
CompletedDefault == FALSE

\* nextval of the sequence behind todos.id
NextVal == todos_id_seq + 1

\* an INSERT that numbers the new row by the count of rows
InsertRow_CountRows(title, order) ==
    Todo(Cardinality(todos) + 1, title, CompletedDefault, order)

\* INSERT INTO todos (title, "order") VALUES($1, $2) RETURNING ...
InsertRow(title, order) == Todo(NextVal, title, CompletedDefault, order)

\* an UPDATE that leaves "order" out of its SET list
UpdateRows_NoOrder(title, completed, order, id) ==
    {IF r.id = id THEN Todo(r.id, title, completed, r.order) ELSE r : r \in todos}

\* an UPDATE written as an upsert
UpdateRows_Upsert(title, completed, order, id) ==
    {r \in todos : r.id # id} \cup {Todo(id, title, completed, order)}

\* UPDATE todos SET title = $1, completed = $2, "order" = $3 WHERE id = $4
UpdateRows(title, completed, order, id) ==
    {IF r.id = id THEN Todo(r.id, title, completed, order) ELSE r : r \in todos}

\* ... RETURNING id, title, completed, "order"
UpdateReturning(title, completed, order, id) ==
    {Todo(r.id, title, completed, order) : r \in SelectById(id)}

\* a DELETE by id that lost its WHERE clause
DeleteById_NoWhere(id) == {r \in todos : FALSE}

\* DELETE FROM todos WHERE id = $1
DeleteById(id) == {r \in todos : r.id # id}

\* a delete-all that only clears the completed rows
DeleteAllRows_Completed == {r \in todos : ~r.completed}

\* DELETE FROM todos
DeleteAllRows == {}

\* a create that drops the supplied order
CreateOrder_Ignored(new) == unwrap_or(None, 0)

\* todo.order.unwrap_or(0) of create_todo_handler
CreateOrder(new) == unwrap_or(new.order, 0)

\* a statement that ran (it may still have found no row)
NoFault(x) == x.error \in {"none", "RowNotFound"}

Ids(rows) == {r.id : r \in rows}

\* TodosList::respond_to: one presenter per row, in the order fetched
TodosList(rows) ==
    [i \in 1..Len(rows) |-> TodoPresenter(rows[i], todo_url(rows[i].id))]

\* an overlay that resets an absent order the way create defaults it
Overlay_AbsentOrderReset(todo, update_todo) ==
    Todo(todo.id,
         unwrap_or(update_todo.title, todo.title),
         unwrap_or(update_todo.completed, todo.completed),
         unwrap_or(update_todo.order, 0))

\* the overlay of patch_todo_handler: only the fields present in the body
Overlay(todo, update_todo) ==
    Todo(todo.id,
         unwrap_or(update_todo.title, todo.title),
         unwrap_or(update_todo.completed, todo.completed),
         unwrap_or(update_todo.order, todo.order))

Idle == [pc |-> "idle"]
Suspended(update_todo, todo) ==
    [pc |-> "update", update_todo |-> update_todo, todo |-> todo]

\* ------------------------------------------------------------ initial state
Init ==
    /\ todos = {}
    /\ todos_id_seq = 0
    /\ patching = [t \in Tasks |-> Idle]
    /\ last = Pending("start", 0, None)
    /\ issued = {}
    /\ purged = FALSE
    /\ untouched = {}

\* ------------------------------------------------------------ handlers
\* GET /todos
todos_list_handler(fault) ==
    /\ last' = IF fault # "none"
               THEN error_response("list", 0, None, fault)
               ELSE OkJson("list", 0, None, TodosList(OrderById(todos)), None)
    /\ UNCHANGED <<todos, todos_id_seq, patching, issued, purged, untouched>>

\* GET /todos/{id}
todos_show_handler(id, fault) ==
    LET rows == SelectById(id)
        error == IF fault # "none" THEN fault ELSE FetchOneError(rows)
    IN  /\ last' = IF error # "none"
                   THEN error_response("show", id, None, error)
                   ELSE OkJson("show", id, None,
                               <<TodoPresenter(FetchOneRow(rows), todo_url(id))>>, None)
        /\ UNCHANGED <<todos, todos_id_seq, patching, issued, purged, untouched>>

\* POST /todos
create_todo_handler(new, fault) ==
    LET title == new.title
        order == CreateOrder(new)
        todo == InsertRow(title, order)
        presenter == TodoPresenter(todo, todo_url(todo.id))
    IN  /\ todos_id_seq < MaxId
        /\ IF fault # "none"
           THEN /\ last' = error_response("create", 0, Some(new), fault)
                /\ UNCHANGED <<todos, todos_id_seq, issued, purged, untouched>>
           ELSE /\ todos' = todos \cup {todo}
                /\ todos_id_seq' = NextVal
                /\ last' = OkJson("create", 0, Some(new), <<presenter>>, None)
                /\ issued' = issued \cup {todo.id}
                /\ purged' = FALSE
                /\ untouched' = untouched \cup {presenter}
        /\ UNCHANGED patching

\* PATCH /todos/{id}, up to the second await: SELECT, then the overlay
patch_todo_select(t, id, update_todo, fault) ==
    LET rows == SelectById(id)
        error == IF fault # "none" THEN fault ELSE FetchOneError(rows)
    IN  /\ patching[t] = Idle
        /\ IF error # "none"
           THEN /\ last' = error_response("patch_select", id, Some(update_todo), error)
                /\ UNCHANGED patching
           ELSE /\ patching' = [patching EXCEPT ![t] =
                       Suspended(update_todo, Overlay(FetchOneRow(rows), update_todo))]
                /\ last' = Pending("patch_select", id, Some(update_todo))
        /\ UNCHANGED <<todos, todos_id_seq, issued, purged, untouched>>

\* PATCH /todos/{id}, from the second await: UPDATE ... RETURNING, the response
patch_todo_update(t, fault) ==
    /\ patching[t] # Idle
    /\ LET todo == patching[t].todo
           req == Some(patching[t].update_todo)
           returned == UpdateReturning(todo.title, todo.completed, todo.order, todo.id)
           error == IF fault # "none" THEN fault ELSE FetchOneError(returned)
           before == IF SelectById(todo.id) = {} THEN None
                     ELSE Some(FetchOneRow(SelectById(todo.id)))
       IN  IF fault # "none"
           THEN /\ last' = error_response("patch", todo.id, req, fault)
                /\ UNCHANGED <<todos, untouched>>
           ELSE IF error # "none"
           THEN /\ todos' = UpdateRows(todo.title, todo.completed, todo.order, todo.id)
                /\ last' = error_response("patch", todo.id, req, error)
                /\ UNCHANGED untouched
           ELSE /\ todos' = UpdateRows(todo.title, todo.completed, todo.order, todo.id)
                /\ last' = OkJson("patch", todo.id, req,
                                  <<TodoPresenter(FetchOneRow(returned),
                                                  todo_url(FetchOneRow(returned).id))>>,
                                  before)
                /\ untouched' = {p \in untouched : p.id # todo.id}
    /\ patching' = [patching EXCEPT ![t] = Idle]
    /\ UNCHANGED <<todos_id_seq, issued, purged>>

\* DELETE /todos
delete_todos_handler(fault) ==
    /\ IF fault # "none"
       THEN /\ last' = Exchange("delete_all", 0, None, fault, 400, <<>>,
                                "Error trying to delete a todo", None)
            /\ UNCHANGED <<todos, purged, untouched>>
       ELSE /\ todos' = DeleteAllRows
            /\ last' = NoContent("delete_all", 0)
            /\ purged' = TRUE
            /\ untouched' = {}
    /\ UNCHANGED <<todos_id_seq, patching, issued>>

\* DELETE /todos/{id}
delete_todo_handler(id, fault) ==
    /\ IF fault # "none"
       THEN /\ last' = error_response("delete", id, None, fault)
            /\ UNCHANGED <<todos, untouched>>
       ELSE /\ todos' = DeleteById(id)
            /\ last' = NoContent("delete", id)
            /\ untouched' = {p \in untouched : p.id # id}
    /\ UNCHANGED <<todos_id_seq, patching, issued, purged>>

List == \E fault \in Faults : todos_list_handler(fault)
Show == \E id \in PathIds, fault \in Faults : todos_show_handler(id, fault)
Create == \E new \in NewTodo, fault \in Faults : create_todo_handler(new, fault)
PatchSelect ==
    \E t \in Tasks, id \in PathIds, update_todo \in UpdateTodo, fault \in Faults :
        patch_todo_select(t, id, update_todo, fault)
PatchUpdate == \E t \in Tasks, fault \in Faults : patch_todo_update(t, fault)
DeleteAll == \E fault \in Faults : delete_todos_handler(fault)
DeleteOne == \E id \in PathIds, fault \in Faults : delete_todo_handler(id, fault)

Next ==
    \/ List
    \/ Show
    \/ Create
    \/ PatchSelect
    \/ PatchUpdate
    \/ DeleteAll
    \/ DeleteOne

Spec == Init /\ [][Next]_vars

\* ------------------------------------------------------------ properties
\* The row stored under an id, as a set (empty when there is none).
Stored(rows, id) == {r \in rows : r.id = id}

\* The url the service advertises for an id.
ExpectedUrl(id) == "http://127.0.0.1:8080/todos/" \o ToString(id)

\* The stored fields of a presenter.
Fields(p) == Todo(p.id, p.title, p.completed, p.order)

\* C1: a successful create returns an id no earlier create returned (ids of
\* deleted rows included), a stored id stays stored under that same id until
\* a delete removes it, and GET /todos/{id} and GET /todos report every stored
\* row under its id.
C1_IdUniqueAndStable ==
    [][ /\ (last'.op = "create" /\ last'.status = 200) =>
              /\ last'.json[1].id \notin issued
              /\ last'.json[1].id \notin Ids(todos)
              /\ last'.json[1].id \in Ids(todos')
        /\ \A r \in todos :
              r.id \in Ids(todos') \/ last'.op \in {"delete", "delete_all"}
        /\ \A r \in todos', q \in todos' : r.id = q.id => r = q
        /\ Ids(todos') \subseteq issued'
        /\ (last'.op = "show" /\ NoFault(last') /\ last'.id \in Ids(todos')) =>
              /\ last'.status = 200
              /\ last'.json[1].id = last'.id
        /\ (last'.op = "list" /\ last'.status = 200) =>
              /\ {last'.json[i].id : i \in 1..Len(last'.json)} = Ids(todos')
              /\ Len(last'.json) = Cardinality(todos')
      ]_vars

\* C1 witness: a create that followed a delete got a fresh id.
C1_Witness ==
    /\ last.op = "create" /\ last.status = 200
    /\ Cardinality(issued) = 2
    /\ Cardinality(todos) = 1

\* C2: a successful GET /todos returns exactly the stored rows, each once, in
\* strictly ascending order of id, and the empty array for an empty table.
C2_ListSortedAndExact ==
    (last.op = "list" /\ last.status = 200) =>
        /\ {Fields(last.json[i]) : i \in 1..Len(last.json)} = todos
        /\ Len(last.json) = Cardinality(todos)
        /\ \A i \in 1..Len(last.json), j \in 1..Len(last.json) :
              i < j => last.json[i].id < last.json[j].id
        /\ todos = {} => last.json = <<>>

\* C2 witness: a list of two rows.
C2_Witness ==
    /\ last.op = "list" /\ last.status = 200
    /\ Len(last.json) = 2

\* The step is the UPDATE of task t's PATCH, and the statement ran.
IsUpdateOf(t) ==
    /\ patching[t] # Idle
    /\ patching'[t] = Idle
    /\ last'.op = "patch"
    /\ NoFault(last')

\* C3: a PATCH whose row was not written between its SELECT and its UPDATE
\* sets the fields present in the body, keeps the absent ones, the id and all
\* other rows, and returns the merged item.
C3_PatchFrame ==
    [][ \A t \in Tasks :
          (/\ IsUpdateOf(t)
           /\ Stored(todos, patching[t].todo.id) # {}
           /\ \A r \in Stored(todos, patching[t].todo.id) :
                 Overlay(r, patching[t].update_todo) = patching[t].todo)
          =>
          LET body == patching[t].update_todo
              id == patching[t].todo.id
              old == FetchOneRow(Stored(todos, id))
          IN  /\ last'.status = 200
              /\ \E new \in todos' :
                    /\ new.id = id
                    /\ new.title = (IF body.title = None THEN old.title
                                    ELSE body.title[1])
                    /\ new.completed = (IF body.completed = None THEN old.completed
                                        ELSE body.completed[1])
                    /\ new.order = (IF body.order = None THEN old.order
                                    ELSE body.order[1])
                    /\ todos' \ {new} = todos \ {old}
                    /\ last'.json = <<TodoPresenter(new, ExpectedUrl(id))>>
      ]_vars

\* C3 witness: {completed: true} applied to a row with a non-default title and
\* order, beside another row.
C3_Witness ==
    /\ last.op = "patch" /\ last.status = 200
    /\ last.req = Some([title |-> None, completed |-> Some(TRUE), order |-> None])
    /\ last.before = Some(Todo(last.id, "b", FALSE, 1))
    /\ Todo(last.id, "b", TRUE, 1) \in todos
    /\ Cardinality(todos) = 2

\* C4: a storage failure in any handler is answered 404 for "no row" and 500
\* for every other error.
C4_StorageFailureIs404Or500 ==
    last.error # "none" =>
        last.status = (IF last.error = "RowNotFound" THEN 404 ELSE 500)

\* C5: DELETE /todos/{id} whose statement ran returns 204 with an empty body,
\* removes the row with that id if there is one and nothing else.
C5_DeleteOne ==
    [][ (last'.op = "delete" /\ last'.error = "none") =>
          /\ last'.status = 204
          /\ last'.json = <<>> /\ last'.text = ""
          /\ last'.id \notin Ids(todos')
          /\ todos' = {r \in todos : r.id # last'.id}
          /\ last'.id \notin Ids(todos) => todos' = todos
      ]_vars

\* C5 witness: a delete of an id that is not stored, with rows in the table.
C5_Witness ==
    /\ last.op = "delete" /\ last.status = 204
    /\ last.id \notin issued
    /\ todos # {}

\* C6: a successful DELETE /todos returns 204 and empties the table; until the
\* next create the table stays empty, GET /todos returns the empty array and
\* GET /todos/{id} returns 404.
C6_DeleteAll ==
    /\ (last.op = "delete_all" /\ last.error = "none") =>
          last.status = 204 /\ last.json = <<>> /\ todos = {}
    /\ purged => todos = {}
    /\ (purged /\ last.op = "list" /\ NoFault(last)) =>
          last.status = 200 /\ last.json = <<>>
    /\ (purged /\ last.op = "show" /\ NoFault(last)) => last.status = 404

\* C6 witness: after a delete-all, a GET of an id that existed answers 404.
C6_Witness ==
    /\ purged
    /\ last.op = "show" /\ last.status = 404
    /\ last.id \in issued

\* C7: fetching a created row that was neither patched nor deleted returns the
\* title, completed and order of the create response, and both responses carry
\* the url scheme://host:port/todos/{id}.
C7_RoundTrip ==
    /\ (last.op = "create" /\ last.status = 200) =>
          last.json[1].url = ExpectedUrl(last.json[1].id)
    /\ \A p \in untouched :
          /\ p.url = ExpectedUrl(p.id)
          /\ (last.op = "show" /\ NoFault(last) /\ last.id = p.id) =>
                /\ last.status = 200
                /\ last.json = <<p>>

\* C7 witness: a created row with a supplied order fetched back.
C7_Witness ==
    /\ last.op = "show" /\ last.status = 200
    /\ \E p \in untouched : p.id = last.id /\ p.order = 1 /\ p.title = "b"

\* C8: a successful POST /todos adds exactly one row and changes no other; the
\* row has the supplied title, completed false, and the supplied order or 0.
C8_Create ==
    [][ (last'.op = "create" /\ last'.status = 200) =>
          \E new \in todos' :
            /\ new.id \notin Ids(todos)
            /\ todos' = todos \cup {new}
            /\ Cardinality(todos') = Cardinality(todos) + 1
            /\ new.title = last'.req[1].title
            /\ new.completed = FALSE
            /\ new.order = (IF last'.req[1].order = None THEN 0
                            ELSE last'.req[1].order[1])
            /\ last'.json = <<TodoPresenter(new, ExpectedUrl(new.id))>>
      ]_vars

\* C8 witness: a create without an order, and one with an order, both stored.
C8_Witness ==
    /\ last.op = "create" /\ last.status = 200
    /\ last.req[1].order = None
    /\ last.json[1].order = 0
    /\ \E r \in todos : r.id # last.json[1].id /\ r.order = 1 /\ ~r.completed

\* C9: the UPDATE of a PATCH stores the copy merged at its SELECT whatever was
\* written to the row since, answers 200, and leaves the other suspended
\* PATCH requests with their own copies.
C9_LastWriteWins ==
    [][ \A t \in Tasks :
          (IsUpdateOf(t) /\ Stored(todos, patching[t].todo.id) # {}) =>
              /\ last'.status = 200
              /\ Stored(todos', patching[t].todo.id) = {patching[t].todo}
              /\ last'.json = <<TodoPresenter(patching[t].todo,
                                              ExpectedUrl(patching[t].todo.id))>>
              /\ \A u \in Tasks \ {t} : patching'[u] = patching[u]
      ]_vars

\* A field absent from the body of the last PATCH lost the value stored before.
Reverted(x) ==
    \/ x.req[1].title = None /\ x.before[1].title # x.json[1].title
    \/ x.req[1].completed = None /\ x.before[1].completed # x.json[1].completed
    \/ x.req[1].order = None /\ x.before[1].order # x.json[1].order

\* C9 witness: a lost update.
C9_Witness ==
    /\ last.op = "patch" /\ last.status = 200
    /\ last.before # None
    /\ Reverted(last)

\* C10: no step of a PATCH changes the set of stored ids; a PATCH whose row is
\* absent at its SELECT or at its UPDATE answers 404 and changes no row.
C10_PatchNeverCreates ==
    [][ /\ last'.op \in {"patch_select", "patch"} => Ids(todos') = Ids(todos)
        /\ (last'.op = "patch_select" /\ NoFault(last')
              /\ last'.id \notin Ids(todos)) =>
              last'.status = 404 /\ todos' = todos /\ patching' = patching
        /\ \A t \in Tasks :
              (IsUpdateOf(t) /\ Stored(todos, patching[t].todo.id) = {}) =>
                  last'.status = 404 /\ todos' = todos
      ]_vars

\* C10 witness: a PATCH whose row was deleted after its SELECT answered 404.
C10_Witness ==
    /\ last.op = "patch" /\ last.status = 404
    /\ last.id \in issued
    /\ last.id \notin Ids(todos)

====
